---- MODULE Spec2Model ----
(***************************************************************************)
(* The overlay layer manager of ciel-rs (src/src/overlayfs.rs): the upper, *)
(* lower and work layers of one instance, the kernel mount table entry of  *)
(* its mount point, and the operations mount, unmount, commit (diff, then  *)
(* one change record per step) and rollback.                               *)
(*                                                                         *)
(* A layer is a partial function from relative paths (sequences of names)  *)
(* to nodes.  The filesystem calls the code makes (rename, mkdir, unlink,  *)
(* recursive removal, stat) are operators with the errors of rename(2),    *)
(* mkdir(2) and unlink(2).                                                 *)
(*                                                                         *)
(* Three smaller parts stand beside it, each with a specification of its   *)
(* own: the mount probe is_mounted(mountpoint, fs_type) over a mount table *)
(* (ProbeSpec), the checks of main before its switch table                 *)
(* (src/src/main.rs, MainSpec), and the construction of a manager from an  *)
(* instance name (NameSpec).                                               *)
(***************************************************************************)
EXTENDS Integers, Sequences, FiniteSets, TLC

\* the layer manager of one instance, its layers and its commit in progress
VARIABLES self, upper, lower, dirs, mounts, outside, pc, mods, idx, last, pre

\* the mount probe: the mount table it reads and what it answered
VARIABLES mountinfo, probe

\* main: the command line, the directories with a .ciel marker, the working
\* directory of the process, and how far main got
VARIABLES args, ciel, cwd, ran

\* the instance name a manager is asked for
VARIABLES name

layerVars == <<self, upper, lower, dirs, mounts, outside, pc, mods, idx, last, pre>>

probeVars == <<mountinfo, probe>>

mainVars == <<args, ciel, cwd, ran>>

vars == <<layerVars, probeVars, mainVars, name>>

(***************************************************************************)
(* Bounds of the model.                                                    *)
(***************************************************************************)
\* entries in the upper layer of an initial state
MaxUpper == 2
\* entries in the lower layer of an initial state
MaxLower == 2
\* depth of a path in an initial layer
MaxDepth == 2
\* overlay mounts stacked on the mount point
MaxMounts == 2

\* file names
Names == {"a", "b"}

(***************************************************************************)
(* Paths.                                                                  *)
(***************************************************************************)
IsPrefix(p, q) == Len(p) <= Len(q) /\ SubSeq(q, 1, Len(p)) = p

Parent(p) == SubSeq(p, 1, Len(p) - 1)

Suffix(q, n) == SubSeq(q, n + 1, Len(q))

\* Path::is_absolute: the path starts at the root component.
IsAbsolute(p) == Len(p) > 0 /\ p[1] = "/"

\* PathBuf::join: an absolute argument replaces the base.
Join(base, p) == IF IsAbsolute(p) THEN p ELSE base \o p

\* Path::strip_prefix compares whole components and resolves nothing.
StripPrefix(p, prefix) == Suffix(p, Len(prefix))

TreePaths == UNION {[1..k -> Names] : k \in 1..MaxDepth}

(***************************************************************************)
(* Nodes and trees.                                                        *)
(***************************************************************************)
NoAttr == "<none>"
\* an extended attribute value that is not UTF-8
BadBytes == "<not utf-8>"

Node(kind, mode, data, opaque, redirect, rdev) ==
    [kind |-> kind, mode |-> mode, data |-> data, opaque |-> opaque,
     redirect |-> redirect, rdev |-> rdev]

\* fs::create_dir: mode 0o777 under the usual umask 0o022.
DefaultDirMode == 493

DirNode(mode, opaque, redirect) == Node("dir", mode, 0, opaque, redirect, 0)
FileNode(mode, data) == Node("file", mode, data, NoAttr, <<>>, 0)
SymlinkNode(data) == Node("symlink", 511, data, NoAttr, <<>>, 0)
ChrNode(rdev) == Node("chr", 420, 0, NoAttr, <<>>, rdev)

EmptyTree == [q \in {} |-> DirNode(DefaultDirMode, NoAttr, <<>>)]

Has(t, p) == p \in DOMAIN t

IsDirIn(t, p) == Has(t, p) /\ t[p].kind = "dir"

\* p and everything below it
Under(t, p) == {q \in DOMAIN t : IsPrefix(p, q)}

Entries(t, p) == {q \in DOMAIN t : Len(q) = Len(p) + 1 /\ IsPrefix(p, q)}

Without(t, S) == [q \in (DOMAIN t) \ S |-> t[q]]

RemoveTree(t, p) == Without(t, Under(t, p))

Put(t, p, n) == [q \in (DOMAIN t) \cup {p} |-> IF q = p THEN n ELSE t[q]]

\* the subtree of s at sp, placed at dp in d (whatever d held at dp is replaced)
Graft(s, sp, d, dp) ==
    LET base == RemoveTree(d, dp)
        moved == {dp \o Suffix(q, Len(sp)) : q \in Under(s, sp)}
    IN  [q \in (DOMAIN base) \cup moved |->
            IF q \in moved THEN s[sp \o Suffix(q, Len(dp))] ELSE base[q]]

(***************************************************************************)
(* The manager: from_inst_dir binds the five paths of one instance.        *)
(***************************************************************************)
from_inst_dir(dist_path, inst_path, inst_name) ==
    LET inst == Join(inst_path, inst_name)
    IN  [inst |-> inst,
         base |-> dist_path,
         lower |-> inst \o <<"layers", "local">>,
         upper |-> inst \o <<"layers", "diff">>,
         work |-> inst \o <<"layers", "diff.tmp">>]

\* The workspace directories, relative to the working directory or absolute.
Workspaces ==
    {[dist |-> <<"dist">>, inst |-> <<"instances">>],
     [dist |-> <<"/", "ws", "dist">>, inst |-> <<"/", "ws", "instances">>]}

get_overlayfs_manager(ws, inst_name) == from_inst_dir(ws.dist, ws.inst, inst_name)

(***************************************************************************)
(* The filesystem calls.  st is [upper, lower, dirs, outside]; a result is *)
(* [err, st] with err = "" on success.                                     *)
(***************************************************************************)
Ok(st) == [err |-> "", st |-> st]

Fail(e, st) == [err |-> e, st |-> st]

Tree(st, layer) == IF layer = "upper" THEN st.upper ELSE st.lower

SetTree(st, layer, t) ==
    IF layer = "upper" THEN [st EXCEPT !.upper = t] ELSE [st EXCEPT !.lower = t]

\* Which layer a path of the manager lies in, and where in it.
Locate(m, path) ==
    IF IsPrefix(m.upper, path)
    THEN [layer |-> "upper", rel |-> StripPrefix(path, m.upper)]
    ELSE IF IsPrefix(m.lower, path)
    THEN [layer |-> "lower", rel |-> StripPrefix(path, m.lower)]
    ELSE [layer |-> "out", rel |-> path]

Exists(st, loc) ==
    IF loc.rel = <<>> THEN st.dirs[loc.layer] ELSE Has(Tree(st, loc.layer), loc.rel)

\* Path::is_dir (the symbolic links of the model do not lead to directories)
is_dir(st, loc) ==
    IF loc.rel = <<>> THEN st.dirs[loc.layer] ELSE IsDirIn(Tree(st, loc.layer), loc.rel)

ParentIsDir(st, loc) ==
    /\ loc.rel # <<>>
    /\ is_dir(st, [layer |-> loc.layer, rel |-> Parent(loc.rel)])

\* rename(2) of src onto dst, both inside the layers.
Rename(st, src, dst) ==
    LET S == Tree(st, src.layer)
        D == Tree(st, dst.layer)
    IN  IF src.rel = <<>> \/ ~Has(S, src.rel) THEN Fail("ENOENT", st)
        ELSE IF ~ParentIsDir(st, dst) THEN Fail("ENOENT", st)
        ELSE IF src = dst THEN Ok(st)
        ELSE IF src.layer = dst.layer /\ IsPrefix(src.rel, dst.rel) THEN Fail("EINVAL", st)
        ELSE IF Has(D, dst.rel) /\ S[src.rel].kind = "dir" /\ D[dst.rel].kind # "dir"
        THEN Fail("ENOTDIR", st)
        ELSE IF Has(D, dst.rel) /\ S[src.rel].kind = "dir" /\ Entries(D, dst.rel) # {}
        THEN Fail("ENOTEMPTY", st)
        ELSE IF Has(D, dst.rel) /\ S[src.rel].kind # "dir" /\ D[dst.rel].kind = "dir"
        THEN Fail("EISDIR", st)
        ELSE IF src.layer = dst.layer
        THEN Ok(SetTree(st, dst.layer,
                        Graft(S, src.rel, RemoveTree(S, src.rel), dst.rel)))
        ELSE Ok(SetTree(SetTree(st, dst.layer, Graft(S, src.rel, D, dst.rel)),
                        src.layer, RemoveTree(S, src.rel)))

\* fs::create_dir
CreateDir(st, loc) ==
    IF Exists(st, loc) THEN Fail("EEXIST", st)
    ELSE IF ~ParentIsDir(st, loc) THEN Fail("ENOENT", st)
    ELSE Ok(SetTree(st, loc.layer,
                    Put(Tree(st, loc.layer), loc.rel,
                        DirNode(DefaultDirMode, NoAttr, <<>>))))

\* fs::remove_dir_all of a path inside a layer
RemoveDirAll(st, loc) ==
    IF ~Exists(st, loc) THEN Fail("ENOENT", st)
    ELSE Ok(SetTree(st, loc.layer, RemoveTree(Tree(st, loc.layer), loc.rel)))

\* fs::remove_file
RemoveFile(st, loc) ==
    IF ~Exists(st, loc) THEN Fail("ENOENT", st)
    ELSE IF is_dir(st, loc) THEN Fail("EISDIR", st)
    ELSE Ok(SetTree(st, loc.layer, Without(Tree(st, loc.layer), {loc.rel})))

\* fs::metadata follows symbolic links, which lead nowhere in the model.
Metadata(st, loc) ==
    IF Exists(st, loc) /\ (loc.rel = <<>> \/ Tree(st, loc.layer)[loc.rel].kind # "symlink")
    THEN "" ELSE "ENOENT"

\* sync_permission: both paths are stat'ed; set_mode acts on a temporary
\* Permissions value and nothing is written back to the filesystem.
sync_permission(st, from, to) ==
    IF Metadata(st, from) # "" THEN Fail(Metadata(st, from), st)
    ELSE IF Metadata(st, to) # "" THEN Fail(Metadata(st, to), st)
    ELSE Ok(st)

(***************************************************************************)
(* diff: one pass over the upper layer, parents before their contents; the *)
(* order of the entries of one directory is the order readdir gives (ord). *)
(***************************************************************************)
DiffRec(t, path, from) == [t |-> t, path |-> path, from |-> from]

RECURSIVE WalkFrom(_, _, _, _)
\* the paths below p, from the i-th name of ord on, in pre-order
WalkFrom(t, p, ord, i) ==
    IF i > Len(ord) THEN <<>>
    ELSE LET c == p \o <<ord[i]>>
         IN  (IF Has(t, c)
              THEN <<c>> \o (IF t[c].kind = "dir" THEN WalkFrom(t, c, ord, 1) ELSE <<>>)
              ELSE <<>>)
             \o WalkFrom(t, p, ord, i + 1)

\* WalkDir::new(upper).into_iter().skip(1): a missing root is the skipped item.
WalkDir(st, ord) == IF st.dirs.upper THEN WalkFrom(st.upper, <<>>, ord, 1) ELSE <<>>

\* the source of a redirect, as diff computes it for the entry at rel_path
RedirectFrom(m, rel_path, from) ==
    IF IsAbsolute(from)
    THEN StripPrefix(from, <<"/">>)
    ELSE StripPrefix(Parent(Join(m.upper, rel_path)) \o from, m.upper)

\* the body of diff's loop for one entry: an error, or the records it pushes
DiffOpaque(m, st, rel_path) ==
    IF st.upper[rel_path].opaque = "y"
    THEN [err |-> "", recs |-> <<DiffRec("OverrideDir", rel_path, <<>>)>>]
    ELSE [err |-> "", recs |-> <<>>]

DiffEntry(m, st, rel_path) ==
    LET n == st.upper[rel_path]
        lower_path == [layer |-> "lower", rel |-> rel_path]
        one(r) == [err |-> "", recs |-> <<r>>]
    IN  IF n.kind = "symlink"
        THEN one(DiffRec("Symlink", Join(m.upper, rel_path), <<>>))
        ELSE IF n.kind = "dir"
        THEN IF n.opaque # NoAttr
             THEN IF n.opaque = BadBytes
                  THEN [err |-> "FromUtf8Error", recs |-> <<>>]
                  ELSE DiffOpaque(m, st, rel_path)
             ELSE IF n.redirect # <<>>
             THEN IF n.redirect = <<BadBytes>>
                  THEN [err |-> "FromUtf8Error", recs |-> <<>>]
                  ELSE one(DiffRec("RenamedDir", rel_path,
                                   RedirectFrom(m, rel_path, n.redirect)))
             ELSE IF ~is_dir(st, lower_path)
             THEN one(DiffRec("NewDir", rel_path, <<>>))
             ELSE one(DiffRec("ModifiedDir", rel_path, <<>>))
        ELSE IF n.kind = "chr" /\ n.rdev = 0
        THEN one(DiffRec("WhiteoutFile", rel_path, <<>>))
        ELSE one(DiffRec("File", rel_path, <<>>))

RECURSIVE DiffLoop(_, _, _, _)
DiffLoop(m, st, walk, acc) ==
    IF walk = <<>> THEN [err |-> "", mods |-> acc]
    ELSE LET e == DiffEntry(m, st, Head(walk))
         IN  IF e.err # "" THEN [err |-> e.err, mods |-> <<>>]
             ELSE DiffLoop(m, st, Tail(walk), acc \o e.recs)

diff(m, st, ord) == DiffLoop(m, st, WalkDir(st, ord), <<>>)

(***************************************************************************)
(* commit: the match arm of one change record.                             *)
(***************************************************************************)
RECURSIVE Resolve(_, _, _)
\* The kernel's walk of comps from the directory cur of the lower layer.
Resolve(st, cur, comps) ==
    IF comps = <<>> THEN [where |-> "in", rel |-> cur]
    ELSE IF Head(comps) = ".."
    THEN IF cur = <<>> THEN [where |-> "out", rel |-> <<>>]
         ELSE Resolve(st, Parent(cur), Tail(comps))
    ELSE IF Tail(comps) = <<>> THEN [where |-> "in", rel |-> cur \o <<Head(comps)>>]
    ELSE IF IsDirIn(st.lower, cur \o <<Head(comps)>>)
    THEN Resolve(st, cur \o <<Head(comps)>>, Tail(comps))
    ELSE [where |-> "enoent", rel |-> <<>>]

\* rename of a directory that lies outside the layers onto lower/to; env says
\* whether the outside path exists.
RenameFromOutside(st, to_path, env) ==
    IF env = "absent" THEN Fail("ENOENT", st)
    ELSE IF ~ParentIsDir(st, to_path) THEN Fail("ENOENT", st)
    ELSE IF Has(st.lower, to_path.rel) /\ st.lower[to_path.rel].kind # "dir"
    THEN Fail("ENOTDIR", st)
    ELSE IF Has(st.lower, to_path.rel) /\ Entries(st.lower, to_path.rel) # {}
    THEN Fail("ENOTEMPTY", st)
    ELSE Ok([st EXCEPT !.lower = Put(st.lower, to_path.rel,
                                      DirNode(DefaultDirMode, NoAttr, <<>>)),
                       !.outside = TRUE])

CommitSymlink(m, st, path) ==
    LET lower_path == Join(m.lower, path)
    IN  Rename(st, Locate(m, path), Locate(m, lower_path))

CommitOverrideDir(m, st, path) ==
    Rename(st, Locate(m, Join(m.upper, path)), Locate(m, Join(m.lower, path)))

CommitRenamedDir(m, st, from, to, env) ==
    LET from_path == Resolve(st, <<>>, from)
        to_path == Locate(m, Join(m.lower, to))
    IN  IF ~st.dirs.lower \/ from_path.where = "enoent" THEN Fail("ENOENT", st)
        ELSE IF from_path.where = "out" THEN RenameFromOutside(st, to_path, env)
        ELSE IF from_path.rel = <<>> THEN Fail("EINVAL", st)
        ELSE Rename(st, [layer |-> "lower", rel |-> from_path.rel], to_path)

CommitNewDir(m, st, path) == CreateDir(st, Locate(m, Join(m.lower, path)))

CommitModifiedDir(m, st, path) ==
    sync_permission(st, Locate(m, Join(m.upper, path)), Locate(m, Join(m.lower, path)))

CommitWhiteoutFile(m, st, path) ==
    LET lower_path == Locate(m, Join(m.lower, path))
    IN  IF is_dir(st, lower_path)
        THEN RemoveDirAll(st, lower_path)
        ELSE RemoveFile(st, lower_path)

CommitFile(m, st, path) ==
    LET upper_path == Locate(m, Join(m.upper, path))
        lower_path == Locate(m, Join(m.lower, path))
        moved == Rename(st, upper_path, lower_path)
    IN  IF moved.err # "" THEN moved
        ELSE sync_permission(moved.st, upper_path, lower_path)

ApplyDiff(m, st, i, env) ==
    CASE i.t = "Symlink" -> CommitSymlink(m, st, i.path)
      [] i.t = "OverrideDir" -> CommitOverrideDir(m, st, i.path)
      [] i.t = "RenamedDir" -> CommitRenamedDir(m, st, i.from, i.path, env)
      [] i.t = "NewDir" -> CommitNewDir(m, st, i.path)
      [] i.t = "ModifiedDir" -> CommitModifiedDir(m, st, i.path)
      [] i.t = "WhiteoutFile" -> CommitWhiteoutFile(m, st, i.path)
      [] i.t = "File" -> CommitFile(m, st, i.path)

(***************************************************************************)
(* The layers an instance can be found with: what the container wrote into *)
(* the upper layer through the mounted view, and what the lower layer held.*)
(***************************************************************************)
OpaqueVals == {"y", "n", BadBytes}

RedirectVals == {<<"/">>, <<"/", "b">>, <<"b">>, <<"..", "b">>}

UpperNodes ==
    {SymlinkNode(1)}
    \cup {DirNode(mode, NoAttr, <<>>) : mode \in {493, 448}}
    \cup {DirNode(493, o, <<>>) : o \in OpaqueVals}
    \cup {DirNode(493, NoAttr, r) : r \in RedirectVals}
    \cup {ChrNode(rdev) : rdev \in {0, 1}}
    \cup {FileNode(mode, 1) : mode \in {420, 493}}

LowerNodes == {DirNode(493, NoAttr, <<>>), FileNode(420, 2), SymlinkNode(2)}

\* where a tree of depth MaxDepth at most can take one more entry
Addable(t) ==
    {p \in TreePaths : ~Has(t, p) /\ (Len(p) = 1 \/ IsDirIn(t, Parent(p)))}

RECURSIVE TreesUpTo(_, _)
TreesUpTo(n, nodes) ==
    IF n = 0 THEN {EmptyTree}
    ELSE LET smaller == TreesUpTo(n - 1, nodes)
         IN  smaller \cup
             UNION {UNION {{Put(t, p, k) : k \in nodes} : p \in Addable(t)} : t \in smaller}

\* readdir orders
Orders == {o \in [1..Cardinality(Names) -> Names] : \A n \in Names : \E i \in DOMAIN o : o[i] = n}

(***************************************************************************)
(* The mount probe.  /proc/self/mountinfo is a sequence of lines, and the  *)
(* Parser yields them one at a time, each as a mount entry or as a parse   *)
(* error.                                                                  *)
(***************************************************************************)
\* lines of a mount table
MaxEntries == 3

MountPoints == {<<"/", "t">>, <<"/", "t", "a">>}

FsTypes == {"overlay", "ext4"}

Malformed == [bad |-> TRUE, mount_point |-> <<>>, fstype |-> ""]

MountLine(mp, ty) == [bad |-> FALSE, mount_point |-> mp, fstype |-> ty]

Lines == {Malformed} \cup {MountLine(mp, ty) : mp \in MountPoints, ty \in FsTypes}

MountTables == UNION {[1..n -> Lines] : n \in 0..MaxEntries}

RECURSIVE ParserLoop(_, _, _)
\* for mount in parser: the ? on a malformed line, the return on a match
ParserLoop(lines, mountpoint, fs_type) ==
    IF lines = <<>> THEN "false"
    ELSE IF Head(lines).bad THEN "ParseError"
    ELSE IF Head(lines).mount_point = mountpoint /\ Head(lines).fstype = fs_type
    THEN "true"
    ELSE ParserLoop(Tail(lines), mountpoint, fs_type)

\* the free function is_mounted(mountpoint, fs_type)
IsMounted(info, mountpoint, fs_type) ==
    IF ~info.readable THEN "IoError"
    ELSE ParserLoop(info.lines, mountpoint, fs_type)

NotProbed == [mountpoint |-> <<>>, fs_type |-> "", res |-> "none"]

(***************************************************************************)
(* Instance names.  A name is a string over NameChars; as a path it is the *)
(* sequence of its components.                                             *)
(***************************************************************************)
\* characters of an instance name
MaxNameLen == 5

NameChars == {"x", "/"}

InstNames == UNION {[1..n -> NameChars] : n \in 0..MaxNameLen}

\* the component made of n letters
Component(n) == <<"x", "xx", "xxx", "xxxx", "xxxxx", "xxxxxx">>[n]

RECURSIVE Split(_, _)
\* the normal components of the string s, n letters of one being read already
Split(s, n) ==
    LET done == IF n = 0 THEN <<>> ELSE <<Component(n)>>
    IN  IF s = <<>> THEN done
        ELSE IF Head(s) = "/" THEN done \o Split(Tail(s), 0)
        ELSE Split(Tail(s), n + 1)

\* Path::new(s): a leading separator is the root, empty components are dropped
PathOf(s) == (IF s # <<>> /\ Head(s) = "/" THEN <<"/">> ELSE <<>>) \o Split(s, 0)

\* no manager is bound yet
Unbound == [inst |-> <<>>, base |-> <<>>, lower |-> <<>>, upper |-> <<>>, work |-> <<>>]

(***************************************************************************)
(* main: the checks it makes before its switch table.  ciel tells of every *)
(* directory whether its .ciel is a directory, a file or absent.           *)
(***************************************************************************)
Dirs == {<<"/">>, <<"/", "p">>, <<"/", "p", "w">>}

\* a -C argument that names no directory
MissingDir == <<"/", "nowhere">>

\* value_of("C").unwrap_or(".")
Dot == <<".">>

DirOptions == {Dot, MissingDir} \cup Dirs

\* args.subcommand() is None
NoSubcommand == ""

Subcommands == {"init", "new", "version", "farewell", "commit", "list"}

Markers == {"dir", "file", "absent"}

NotRun == [stage |-> "start", exit |-> "", ops |-> <<>>]

\* std::env::set_current_dir(directory) of a process whose directory is at
set_current_dir(at, directory) ==
    IF directory = Dot THEN [err |-> "", cwd |-> at]
    ELSE IF directory \in Dirs THEN [err |-> "", cwd |-> directory]
    ELSE [err |-> "ENOENT", cwd |-> at]

RECURSIVE find_ciel_dir(_, _)
\* the nearest directory from start upwards whose .ciel is a directory
find_ciel_dir(markers, start) ==
    IF markers[start] = "dir" THEN [err |-> "", dir |-> start]
    ELSE IF start = <<"/">> THEN [err |-> "NotFound", dir |-> start]
    ELSE find_ciel_dir(markers, Parent(start))

\* main has ended with code, in directory at, having called ops
Exited(code, at, markers, ops) ==
    [cwd |-> at, ciel |-> markers,
     ran |-> [stage |-> "exited", exit |-> code, ops |-> ops]]

\* the switch table: subcmd runs in directory at and ends well or not
Dispatch(subcmd, at, markers, op_ok) ==
    Exited(IF op_ok THEN "0" ELSE "1", at,
           IF subcmd \in {"init", "new"} /\ op_ok
           THEN [markers EXCEPT ![at] = "dir"] ELSE markers,
           <<subcmd>>)

main(a, markers, at, root, op_ok) ==
    LET moved == set_current_dir(at, a.C)
        here == moved.cwd
        found == find_ciel_dir(markers, here)
    IN  IF ~root THEN Exited("1", at, markers, <<>>)
        ELSE IF moved.err # "" THEN Exited("panic", at, markers, <<>>)
        ELSE IF a.subcmd = NoSubcommand
        THEN Exited(IF op_ok THEN "0" ELSE "1", here, markers, <<"print_instances">>)
        ELSE IF a.subcmd \notin {"init", "new", "version"} /\ markers[here] # "dir"
        THEN IF a.C = Dot
             THEN IF found.err # "" THEN Exited("1", here, markers, <<>>)
                  ELSE Dispatch(a.subcmd, found.dir, markers, op_ok)
             ELSE Exited("1", here, markers, <<>>)
        ELSE Dispatch(a.subcmd, here, markers, op_ok)

(***************************************************************************)
(* State.                                                                  *)
(***************************************************************************)
St == [upper |-> upper, lower |-> lower, dirs |-> dirs, outside |-> outside]

\* LayerManager::is_mounted: the mount table holds an overlay entry at the target
is_mounted == mounts > 0

Snapshot ==
    [upper |-> upper, lower |-> lower, dirs |-> dirs, outside |-> outside,
     mounted |-> is_mounted]

Result(op, res) == [op |-> op, res |-> res]

\* create_new_instance_fs makes instances/<name> and none of its layers
FreshDirs == [upper |-> FALSE, lower |-> FALSE, work |-> "absent"]

\* the state the mount probe works on, when the probe is not what is looked at
ProbeAtRest ==
    /\ mountinfo = [readable |-> TRUE, lines |-> <<>>]
    /\ probe = NotProbed

\* the state main works on, when main is not what is looked at
MainAtRest ==
    /\ args = [C |-> Dot, subcmd |-> NoSubcommand]
    /\ ciel = [d \in Dirs |-> "absent"]
    /\ cwd = <<"/">>
    /\ ran = NotRun

\* the layers of a new instance, when the layer manager is not what is looked at
LayersAtRest ==
    /\ dirs = FreshDirs
    /\ upper = EmptyTree
    /\ lower = EmptyTree
    /\ mounts = 0
    /\ outside = FALSE
    /\ pc = "idle"
    /\ mods = <<>>
    /\ idx = 0
    /\ pre = [upper |-> EmptyTree, lower |-> EmptyTree, dirs |-> FreshDirs,
              outside |-> FALSE, mounted |-> FALSE]

Init ==
    /\ name = <<"x">>
    /\ ProbeAtRest
    /\ MainAtRest
    /\ self \in {get_overlayfs_manager(ws, PathOf(name)) : ws \in Workspaces}
    /\ \/ /\ dirs = FreshDirs
          /\ upper = EmptyTree
          /\ lower = EmptyTree
       \/ /\ dirs = [upper |-> TRUE, lower |-> TRUE, work |-> "used"]
          /\ upper \in TreesUpTo(MaxUpper, UpperNodes)
          /\ lower \in TreesUpTo(MaxLower, LowerNodes)
    /\ mounts = 0
    /\ outside = FALSE
    /\ pc = "idle"
    /\ mods = <<>>
    /\ idx = 0
    /\ last = Result("new", "Ok")
    /\ pre = [upper |-> upper, lower |-> lower, dirs |-> dirs, outside |-> FALSE,
              mounted |-> FALSE]

(***************************************************************************)
(* Operations.                                                             *)
(***************************************************************************)
\* mount: the three directories are made, then the kernel accepts or rejects
Mount ==
    /\ pc = "idle"
    /\ \E accepted \in BOOLEAN :
        /\ accepted => mounts < MaxMounts
        /\ mounts' = IF accepted THEN mounts + 1 ELSE mounts
        /\ dirs' = [upper |-> TRUE, lower |-> TRUE,
                    work |-> IF accepted THEN "used"
                             ELSE IF dirs.work = "absent" THEN "empty" ELSE dirs.work]
        /\ last' = Result("mount", IF accepted THEN "Ok" ELSE "MountRejected")
    /\ pre' = Snapshot
    /\ mods' = <<>>
    /\ idx' = 0
    /\ UNCHANGED <<self, upper, lower, outside, pc>>
    /\ UNCHANGED <<probeVars, mainVars, name>>

\* unmount: umount2 with MNT_DETACH
Unmount ==
    /\ pc = "idle"
    /\ mounts' = IF mounts > 0 THEN mounts - 1 ELSE mounts
    /\ last' = Result("unmount", IF mounts > 0 THEN "Ok" ELSE "EINVAL")
    /\ pre' = Snapshot
    /\ mods' = <<>>
    /\ idx' = 0
    /\ UNCHANGED <<self, upper, lower, dirs, outside, pc>>
    /\ UNCHANGED <<probeVars, mainVars, name>>

\* rollback: remove upper, remove work, create upper, create work
Rollback ==
    /\ pc = "idle"
    /\ IF ~dirs.upper
       THEN /\ last' = Result("rollback", "ENOENT")
            /\ UNCHANGED <<upper, dirs>>
       ELSE IF dirs.work = "absent"
       THEN /\ last' = Result("rollback", "ENOENT")
            /\ upper' = EmptyTree
            /\ dirs' = [dirs EXCEPT !.upper = FALSE]
       ELSE /\ last' = Result("rollback", "Ok")
            /\ upper' = EmptyTree
            /\ dirs' = [dirs EXCEPT !.work = "empty"]
    /\ pre' = Snapshot
    /\ mods' = <<>>
    /\ idx' = 0
    /\ UNCHANGED <<self, lower, mounts, outside, pc>>
    /\ UNCHANGED <<probeVars, mainVars, name>>

\* commit, up to its loop: diff fails, or returns the records to apply
CommitStart ==
    /\ pc = "idle"
    /\ \E ord \in Orders :
        LET d == diff(self, St, ord)
        IN  /\ mods' = d.mods
            /\ idx' = IF d.err = "" THEN 1 ELSE 0
            /\ pc' = IF d.err = "" /\ d.mods # <<>> THEN "commit" ELSE "idle"
            /\ last' = Result("commit", IF d.err # "" THEN d.err
                                        ELSE IF d.mods = <<>> THEN "Ok" ELSE "running")
    /\ pre' = Snapshot
    /\ UNCHANGED <<self, upper, lower, dirs, mounts, outside>>
    /\ UNCHANGED <<probeVars, mainVars, name>>

\* CommitStep with the error of a record dropped: the loop goes on
CommitStepContinues ==
    /\ pc = "commit"
    /\ idx <= Len(mods)
    /\ \E env \in {"absent", "dir"} :
        LET r == ApplyDiff(self, St, mods[idx], env)
        IN  /\ upper' = r.st.upper
            /\ lower' = r.st.lower
            /\ outside' = r.st.outside
            /\ idx' = idx + 1
            /\ pc' = IF idx < Len(mods) THEN "commit" ELSE "idle"
            /\ last' = Result("commit", IF idx < Len(mods) THEN "running" ELSE "Ok")
    /\ UNCHANGED <<self, dirs, mounts, mods, pre>>
    /\ UNCHANGED <<probeVars, mainVars, name>>

\* one turn of commit's loop: the record mods[idx]; an error returns at once,
\* the last record's success returns Ok
CommitStep ==
    /\ pc = "commit"
    /\ idx <= Len(mods)
    /\ \E env \in {"absent", "dir"} :
        LET r == ApplyDiff(self, St, mods[idx], env)
        IN  /\ upper' = r.st.upper
            /\ lower' = r.st.lower
            /\ outside' = r.st.outside
            /\ idx' = IF r.err = "" THEN idx + 1 ELSE idx
            /\ pc' = IF r.err = "" /\ idx < Len(mods) THEN "commit" ELSE "idle"
            /\ last' = Result("commit", IF r.err # "" THEN r.err
                                        ELSE IF idx < Len(mods) THEN "running" ELSE "Ok")
    /\ UNCHANGED <<self, dirs, mounts, mods, pre>>
    /\ UNCHANGED <<probeVars, mainVars, name>>

Next == Mount \/ Unmount \/ Rollback \/ CommitStart \/ CommitStep

Spec == Init /\ [][Next]_vars

(***************************************************************************)
(* The mount probe on its own: any mount table, probed for any mount point *)
(* and type, any number of times.                                          *)
(***************************************************************************)
ProbeInit ==
    /\ mountinfo \in [readable : {TRUE}, lines : MountTables]
                     \cup {[readable |-> FALSE, lines |-> <<>>]}
    /\ probe = NotProbed
    /\ MainAtRest
    /\ LayersAtRest
    /\ name = <<"x">>
    /\ self = Unbound
    /\ last = Result("new", "Ok")

Probe ==
    /\ \E mountpoint \in MountPoints, fs_type \in FsTypes :
        probe' = [mountpoint |-> mountpoint, fs_type |-> fs_type,
                  res |-> IsMounted(mountinfo, mountpoint, fs_type)]
    /\ UNCHANGED <<layerVars, mountinfo, mainVars, name>>

ProbeNext == Probe

ProbeSpec == ProbeInit /\ [][ProbeNext]_vars

(***************************************************************************)
(* main on its own: one run of the program, with any command line, from    *)
(* any directory.                                                          *)
(***************************************************************************)
MainInit ==
    /\ args \in [C : DirOptions, subcmd : Subcommands \cup {NoSubcommand}]
    /\ ciel \in [Dirs -> Markers]
    /\ cwd \in Dirs
    /\ ran = NotRun
    /\ ProbeAtRest
    /\ LayersAtRest
    /\ name = <<"x">>
    /\ self = Unbound
    /\ last = Result("new", "Ok")

\* is_root() or not; the operation main calls ends well or not
Main ==
    /\ ran.stage = "start"
    /\ \E root \in BOOLEAN, op_ok \in BOOLEAN :
        LET r == main(args, ciel, cwd, root, op_ok)
        IN  /\ cwd' = r.cwd
            /\ ciel' = r.ciel
            /\ ran' = r.ran
    /\ UNCHANGED <<layerVars, probeVars, args, name>>

MainNext == Main

MainSpec == MainInit /\ [][MainNext]_vars

(***************************************************************************)
(* The construction of a manager on its own: any instance name.            *)
(***************************************************************************)
NameInit ==
    /\ name \in InstNames
    /\ self = Unbound
    /\ last = Result("new", "Ok")
    /\ LayersAtRest
    /\ ProbeAtRest
    /\ MainAtRest

\* get_overlayfs_manager(inst_name): from_inst_dir has no failing path
Construct ==
    /\ last.op = "new"
    /\ \E ws \in Workspaces : self' = get_overlayfs_manager(ws, PathOf(name))
    /\ last' = Result("from_inst_dir", "Ok")
    /\ UNCHANGED <<upper, lower, dirs, mounts, outside, pc, mods, idx, pre>>
    /\ UNCHANGED <<probeVars, mainVars, name>>

NameNext == Construct

NameSpec == NameInit /\ [][NameNext]_vars

(***************************************************************************)
(* Vocabulary of the properties.                                           *)
(***************************************************************************)
\* the path below the upper root a record is about
RecordPath(m, rec) ==
    IF rec.t = "Symlink" THEN StripPrefix(rec.path, m.upper) ELSE rec.path

\* diff has returned its list to commit
DiffReturned == last.op = "commit" /\ idx >= 1

\* commit has returned
Returned == last.op = "commit" /\ pc = "idle"

Failed == Returned /\ last.res # "Ok"

\* record j is the one commit's loop applied last, without error
JustApplied(j) == DiffReturned /\ j \in 1..Len(mods) /\ idx = j + 1

\* record j is the one commit failed on
FailedOn(j) == Failed /\ j \in 1..Len(mods) /\ idx = j

Same(t1, t2, q) == (Has(t1, q) <=> Has(t2, q)) /\ (Has(t1, q) => t1[q] = t2[q])

\* t2 holds below p exactly what t1 held below p
SameBelow(t1, t2, p) ==
    \A q \in Under(t1, p) \cup Under(t2, p) : q # p => Same(t1, t2, q)

RecordsOf(p) == {j \in 1..Len(mods) : RecordPath(self, mods[j]) = p}

(***************************************************************************)
(* C1: the list diff returns holds exactly one change record for every     *)
(* path below the upper root.                                              *)
(***************************************************************************)
C1_OneRecordPerPath ==
    DiffReturned => \A p \in DOMAIN pre.upper : Cardinality(RecordsOf(p)) = 1

(***************************************************************************)
(* C2: when the upper layer holds regular files whose parent directories   *)
(* exist in lower, commit returns success, and afterwards each file is in  *)
(* lower with the contents and mode it had in upper, and is gone from      *)
(* upper.  (Stated for an upper layer holding nothing but such files, none *)
(* of them over a lower directory, so that no other record decides what    *)
(* commit returns.)                                                        *)
(***************************************************************************)
OnlyRegularFiles(snap) ==
    /\ snap.upper # EmptyTree
    /\ \A p \in DOMAIN snap.upper :
        /\ snap.upper[p].kind = "file"
        /\ Len(p) = 1 \/ IsDirIn(snap.lower, Parent(p))
        /\ ~IsDirIn(snap.lower, p)

C2_FileRoundTrip ==
    (Returned /\ OnlyRegularFiles(pre)) =>
        /\ last.res = "Ok"
        /\ \A p \in DOMAIN pre.upper :
            /\ Has(lower, p)
            /\ lower[p].data = pre.upper[p].data
            /\ lower[p].mode = pre.upper[p].mode
            /\ ~Has(upper, p)

(***************************************************************************)
(* C3: commit on an instance whose mount point is mounted fails with       *)
(* AlreadyMounted and leaves the upper, lower and base layers as they      *)
(* were.  (Stated for a commit whose diff found records to apply.)         *)
(***************************************************************************)
C3_CommitRefusedWhenMounted ==
    (Returned /\ pre.mounted /\ mods # <<>>) =>
        /\ last.res = "AlreadyMounted"
        /\ upper = pre.upper
        /\ lower = pre.lower
        /\ outside = pre.outside

(***************************************************************************)
(* C4: once a WhiteoutFile(R) record is applied lower/R does not exist,    *)
(* and commit does not fail on a WhiteoutFile(R) record whose lower/R is   *)
(* missing.                                                                *)
(***************************************************************************)
C4_WhiteoutCommit ==
    \A j \in 1..Len(mods) :
        mods[j].t = "WhiteoutFile" =>
            /\ JustApplied(j) => ~Has(lower, mods[j].path)
            /\ ~(FailedOn(j) /\ ~Has(lower, mods[j].path))

(***************************************************************************)
(* C5: for an upper directory R with trusted.overlay.opaque = "y" and      *)
(* children, diff emits OverrideDir(R) before every record of a child,     *)
(* commit returns success, and afterwards lower/R holds exactly what       *)
(* upper/R held.  (Stated for an upper layer holding nothing but R and     *)
(* regular files in it, over a lower layer where R is a directory or       *)
(* missing.)                                                               *)
(***************************************************************************)
OpaqueWithChildren(snap, p) ==
    /\ IsDirIn(snap.upper, p)
    /\ snap.upper[p].opaque = "y"
    /\ Entries(snap.upper, p) # {}
    /\ DOMAIN snap.upper = Under(snap.upper, p)
    /\ \A q \in DOMAIN snap.upper : q # p => snap.upper[q].kind = "file"
    /\ ~Has(snap.lower, p) \/ IsDirIn(snap.lower, p)

C5_OpaqueDirCommit ==
    \A p \in DOMAIN pre.upper :
        (Returned /\ OpaqueWithChildren(pre, p)) =>
            /\ \E j \in 1..Len(mods) :
                /\ mods[j] = DiffRec("OverrideDir", p, <<>>)
                /\ \A k \in 1..Len(mods) :
                    (k # j /\ IsPrefix(p, RecordPath(self, mods[k]))) => j < k
            /\ last.res = "Ok"
            /\ SameBelow(pre.upper, lower, p)

(***************************************************************************)
(* C6: applying Symlink(P) moves the symbolic link from upper to the same  *)
(* relative path under lower: it does not fail when that place is free to  *)
(* take it, and afterwards the link is in lower and gone from upper.       *)
(***************************************************************************)
C6_SymlinkCommit ==
    \A j \in 1..Len(mods) :
        LET p == RecordPath(self, mods[j])
        IN  mods[j].t = "Symlink" =>
                /\ JustApplied(j) =>
                    /\ Has(lower, p)
                    /\ lower[p] = pre.upper[p]
                    /\ ~Has(upper, p)
                /\ ~(/\ FailedOn(j)
                     /\ Len(p) = 1 \/ IsDirIn(lower, Parent(p))
                     /\ ~IsDirIn(lower, p))

(***************************************************************************)
(* C7: once a ModifiedDir(R) record is applied, the permission bits of     *)
(* lower/R are those of upper/R, and no entry has moved.                   *)
(***************************************************************************)
C7_ModifiedDirCommit ==
    \A j \in 1..Len(mods) :
        LET p == mods[j].path
        IN  (mods[j].t = "ModifiedDir" /\ JustApplied(j)) =>
                /\ IsDirIn(lower, p)
                /\ IsDirIn(upper, p)
                /\ lower[p].mode = upper[p].mode
                /\ DOMAIN upper = DOMAIN pre.upper

(***************************************************************************)
(* C8: rollback of an unmounted instance, from its creation on, succeeds   *)
(* and leaves upper and work as empty directories and the lower and base   *)
(* layers as they were.                                                    *)
(***************************************************************************)
C8_Rollback ==
    (last.op = "rollback" /\ ~pre.mounted) =>
        /\ last.res = "Ok"
        /\ dirs.upper
        /\ upper = EmptyTree
        /\ dirs.work = "empty"
        /\ lower = pre.lower
        /\ dirs.lower = pre.dirs.lower
        /\ outside = pre.outside

(***************************************************************************)
(* C9: after a commit that returns success the upper directory has no      *)
(* entries, and a diff run then returns the empty sequence.  (Stated for a *)
(* commit whose diff gave every upper path a record.)                      *)
(***************************************************************************)
C9_CommitClearsUpper ==
    (Returned /\ last.res = "Ok" /\ \A p \in DOMAIN pre.upper : RecordsOf(p) # {}) =>
        /\ upper = EmptyTree
        /\ \A ord \in Orders : diff(self, St, ord) = [err |-> "", mods |-> <<>>]

(***************************************************************************)
(* C10: commit applies the records in the order diff emitted them, one per *)
(* turn of its loop; a record that fails ends commit with the error at     *)
(* once, so that no later record is applied, and the failing turn changes  *)
(* nothing outside the failing record's own paths, so that what the        *)
(* earlier records did stays in place.                                     *)
(***************************************************************************)
\* the lower paths whose subtrees record rec may change
LowerPathsOf(rec) ==
    {RecordPath(self, rec)}
    \cup (IF rec.t = "RenamedDir" /\ Resolve(St, <<>>, rec.from).where = "in"
          THEN {Resolve(St, <<>>, rec.from).rel} ELSE {})

AlwaysFails(rec) == \A env \in {"absent", "dir"} : ApplyDiff(self, St, rec, env).err # ""

NeverFails(rec) == \A env \in {"absent", "dir"} : ApplyDiff(self, St, rec, env).err = ""

LoopTurn ==
    LET rec == mods[idx]
        p == RecordPath(self, rec)
    IN  /\ mods' = mods
        /\ pre' = pre
        /\ \A q \in DOMAIN upper \cup DOMAIN upper' :
            ~IsPrefix(p, q) => Same(upper, upper', q)
        /\ \A q \in DOMAIN lower \cup DOMAIN lower' :
            (\A r \in LowerPathsOf(rec) : ~IsPrefix(r, q)) => Same(lower, lower', q)
        /\ AlwaysFails(rec) =>
            /\ pc' = "idle"
            /\ idx' = idx
            /\ last'.res \notin {"Ok", "running"}
        /\ NeverFails(rec) =>
            /\ idx' = idx + 1
            /\ pc' = (IF idx < Len(mods) THEN "commit" ELSE "idle")
            /\ last'.res = (IF idx < Len(mods) THEN "running" ELSE "Ok")

C10_FailurePolicy ==
    [][/\ pc = "commit" => LoopTurn
       /\ (pc = "idle" /\ last'.op = "commit") => (upper' = upper /\ lower' = lower)]_vars

\* commit failed on its second record and what the first one made is in lower
C10_Witness ==
    /\ FailedOn(2)
    /\ mods[1].t = "NewDir"
    /\ ~Has(pre.lower, mods[1].path)
    /\ IsDirIn(lower, mods[1].path)

(***************************************************************************)
(* C12: for every mount table, is_mounted(path, fs_type) answers true if   *)
(* and only if some entry has that mount point and that type, and it fails *)
(* with a parse error whenever the table holds a malformed entry, before   *)
(* or after a matching one.                                                *)
(***************************************************************************)
HasMatch(lines, mountpoint, fs_type) ==
    \E i \in DOMAIN lines :
        lines[i] = MountLine(mountpoint, fs_type)

HasMalformed(lines) == \E i \in DOMAIN lines : lines[i].bad

C12_MountProbe ==
    (probe.res # "none" /\ mountinfo.readable) =>
        IF HasMalformed(mountinfo.lines)
        THEN probe.res = "ParseError"
        ELSE probe.res = (IF HasMatch(mountinfo.lines, probe.mountpoint, probe.fs_type)
                          THEN "true" ELSE "false")

(***************************************************************************)
(* C11: after any sequence of mount and unmount calls on the target,       *)
(* is_mounted(target) is false right after every unmount that succeeds.    *)
(***************************************************************************)
C11_UnmountedAfterUnmount ==
    (last.op = "unmount" /\ last.res = "Ok") => ~is_mounted

(***************************************************************************)
(* C13: when a directory of the upper layer carries a relative redirect    *)
(* with ".." that resolves outside the upper root, diff fails with an      *)
(* error and emits no RenamedDir record for it, and commit never renames a *)
(* path from outside the lower layer.                                      *)
(***************************************************************************)
RECURSIVE Escapes(_, _)
\* the walk of comps, from depth levels below a root, climbs above the root
Escapes(comps, depth) ==
    IF comps = <<>> THEN FALSE
    ELSE IF Head(comps) = ".." THEN depth = 0 \/ Escapes(Tail(comps), depth - 1)
    ELSE Escapes(Tail(comps), depth + 1)

EscapingRedirect(t, p) ==
    /\ t[p].kind = "dir"
    /\ t[p].opaque = NoAttr
    /\ t[p].redirect \notin {<<>>, <<BadBytes>>}
    /\ ~IsAbsolute(t[p].redirect)
    /\ Escapes(t[p].redirect, Len(p) - 1)

C13_RedirectContained ==
    /\ (last.op = "commit" /\ \E p \in DOMAIN pre.upper : EscapingRedirect(pre.upper, p)) =>
        /\ idx = 0
        /\ last.res \notin {"Ok", "running"}
        /\ \A j \in 1..Len(mods) : ~(mods[j].t = "RenamedDir" /\ Escapes(mods[j].from, 0))
    /\ ~outside

(***************************************************************************)
(* C14: a run of the program with anything but an initialization command   *)
(* (init, new; version is let through as well) calls no operation, the     *)
(* listing of instances when there is no subcommand included, unless the   *)
(* working directory in effect has a .ciel directory; without it the       *)
(* program exits with an error before the switch table.                    *)
(***************************************************************************)
C14_WorkspaceGate ==
    (/\ ran.stage = "exited"
     /\ args.subcmd \notin {"init", "new", "version"}
     /\ ciel[cwd] # "dir") =>
        /\ ran.ops = <<>>
        /\ ran.exit # "0"

(***************************************************************************)
(* C15: the construction of a layer manager fails with InvalidName when    *)
(* the instance name is empty or contains a path separator; for every      *)
(* other name it succeeds, touches no layer, and binds lower, upper and    *)
(* work to instances/<name>/layers/local, layers/diff and layers/diff.tmp. *)
(***************************************************************************)
InvalidName(s) == s = <<>> \/ \E i \in DOMAIN s : s[i] = "/"

C15_Construct ==
    last.op = "from_inst_dir" =>
        IF InvalidName(name)
        THEN last.res = "InvalidName"
        ELSE /\ last.res = "Ok"
             /\ dirs = pre.dirs
             /\ \E ws \in Workspaces :
                 LET inst == ws.inst \o <<Component(Len(name))>>
                 IN  /\ self.lower = inst \o <<"layers", "local">>
                     /\ self.upper = inst \o <<"layers", "diff">>
                     /\ self.work = inst \o <<"layers", "diff.tmp">>

(***************************************************************************)
(* C16: in every commit, when a NewDir(R) record comes to be applied, the  *)
(* parent directory of lower/R exists and lower/R does not exist yet, so   *)
(* that creating the one directory lower/R succeeds.  (Stated for a commit *)
(* whose diff gave every upper path a record, none of them a RenamedDir,   *)
(* and whose upper layer has no directory where the lower layer has        *)
(* something else.)                                                        *)
(***************************************************************************)
C16_DirsBeforeContents ==
    (/\ pc = "commit"
     /\ mods[idx].t = "NewDir"
     /\ \A j \in 1..Len(mods) : mods[j].t # "RenamedDir"
     /\ \A p \in DOMAIN pre.upper :
        /\ RecordsOf(p) # {}
        /\ (IsDirIn(pre.upper, p) /\ Has(pre.lower, p)) => IsDirIn(pre.lower, p)) =>
        /\ ParentIsDir(St, Locate(self, Join(self.lower, mods[idx].path)))
        /\ ~Has(lower, mods[idx].path)
        /\ CommitNewDir(self, St, mods[idx].path).err = ""

====
